---- MODULE Spec2Model ----
(***************************************************************************)
(* A model of pylvp: the LVP serial link (src/pylvp/lvp.py) and the pool   *)
(* that fans operations out to several links (src/pylvp/lvp_pool.py).      *)
(*                                                                         *)
(* The module holds several specifications over one set of variables:      *)
(*   Spec       one link used by concurrent threads (init, send, quiet,    *)
(*              background) against a device on the other end of the wire  *)
(*   SpecQuery  LVPPool.query on pools and selectors drawn from bounded    *)
(*              sets                                                       *)
(*   SpecFanOut LVPPool._parallel_map: the caller and one thread per       *)
(*              target link                                                *)
(*   SpecRoundTrip  LVP._set then LVP._get of one parameter on a Ready,    *)
(*              non-quiet link, texts modelled character by character      *)
(*   SpecDeclare    LVP.declare and LVPPool.declare on specification       *)
(*              strings drawn from a bounded set                           *)
(*   SpecProtocol   one LVP.get or LVP.set against a device that may       *)
(*              answer any line                                            *)
(*   SpecSet    LVP.set given several assignments                          *)
(*   SpecWrappers   the pool's get, set, exec and background, seen from    *)
(*              the links                                                  *)
(***************************************************************************)
EXTENDS Integers, Sequences, FiniteSets, TLC

(***************************************************************************)
(* Bounds                                                                  *)
(***************************************************************************)
MaxCalls == 2      \* top-level calls the foreground threads make in all
MaxWire  == 3      \* commands written to one link's transport
MaxBoot  == 1      \* boot-time chatter lines the device emits
MaxLines == 2      \* lines in one device response
MaxPool  == 3      \* links handed to the pool's constructor
MaxList  == 3      \* length of a flat list selector
MaxOuter == 2      \* length of a list selector that holds lists
MaxInner == 2      \* length of a list inside a list selector
MaxLen   == 3      \* characters in a string value
MaxInt   == 12     \* magnitude of an integer value and of a float's digits
MaxSpec  == 5      \* characters in a function specification
MaxAssign == 2     \* assignments in a positional mapping, and named ones

None == "None"

Callers == {"t1", "t2"}          \* foreground threads
BgThread == "bg"                 \* the thread background() starts
Threads == Callers \cup {BgThread}

VARIABLES
    \* ---- LVP object (lvp.py:45-65)
    _init,      \* self._init
    _quiet,     \* self._quiet
    _lock,      \* self._lock: the thread holding it, or None
    cooled,     \* time.time() >= self._connect_deadline
    \* ---- the serial transport and the device behind it
    tx,         \* commands written, not yet handled by the device
    rx,         \* lines the device has emitted, not yet read
    devMode,    \* "boot" | "manual" | "quiet"
    bootLeft,   \* chatter lines the device may still emit
    \* ---- threads
    pc,         \* position of each thread
    kind,       \* the public operation each thread is inside
    scope,      \* stack of is_quiet locals of the quiet scopes a thread is in
    calls,      \* top-level calls made so far
    keep,       \* the background closure's flag
    \* ---- history
    wire,       \* every write to the transport, in order
    forced,     \* init(force=True) has been called
    timedOut,   \* a read gave up on its timeout
    bgStarts,   \* command executions begun after cancel was invoked
    \* ---- LVPPool object (lvp_pool.py:24-25)
    devices,    \* self.devices: the (id, link) items in the dict's order
    \* ---- one call of LVPPool.query
    q_arg,      \* the selector passed
    q_ret,      \* what the call returned or raised, Pending before it
    \* ---- one call of LVPPool._parallel_map
    pm_devices, \* devices: the target links, in order
    pm_func,    \* func: what it returns for each link, or "raise"
    pm_timeout, \* timeout is not None
    results,    \* the results list
    threads,    \* each thread: "new", "running", "done" or "raised"
    pm_pc,      \* the caller: "start", "join", "collect", "returned"
    pm_i,       \* the caller's place in its current loop
    pm_ret,     \* the dict being built and returned: (key, val) items
    pm_late,    \* history: the threads whose join gave up on its timeout
    \* ---- one set followed by one get
    rt_name,    \* the parameter's name
    rt_value,   \* the value passed to set
    rt_pc,      \* "set", "get", "done"
    params,     \* the device's parameters: name -> text
    rt_ret,     \* what get returned, or the error raised by set or get
    rt_op,      \* the calls made: "set_get", or one "set" or one "get"
    rt_out,     \* out: the text send returned to the last _set or _get
    \* ---- one call of declare
    decl_spec,  \* the specification string
    decl_on,    \* "link": LVP.declare on La; "pool": LVPPool.declare
    functions,  \* the functions set as attributes on each link
    pool_functions, \* the functions set as attributes on the pool
    decl_ret,   \* "pending", "returned" or "ValueError"
    \* ---- one call of LVP.set with several assignments
    set_form,   \* the positional arguments: "none", "mapping", "pair", "three"
    set_pos,    \* the items of the positional mapping, or the one pair
    set_named,  \* the named arguments, in their written order
    set_dict,   \* kwargs once the positional arguments are merged into it
    set_i,      \* the place of the loop in kwargs.items()
    set_pc,     \* "call", "loop", "wait", "done", "TypeError", "RuntimeError"
    set_log,    \* the requests written and responses read, in order
    \* ---- one call of a pool-level wrapper
    pw_op,      \* the wrapper called: "get", "set", "exec", "background"
    pw_sel,     \* the selector passed
    pw_pc,      \* "call", "running", "ValueError"
    pw_devs,    \* the links the selector resolved to
    pw_threads, \* the thread of each target: "running" or "done"
    pw_invoked, \* for each link, the single-link operations invoked on it
    pw_runs,    \* for each link, how many times cmd was executed on it
    pw_tasks    \* the links that have a background task running

linkVars == <<_init, _quiet, _lock, cooled, tx, rx, devMode, bootLeft, pc,
              kind, scope, calls, keep, wire, forced, timedOut, bgStarts>>

queryVars == <<q_arg, q_ret>>

fanVars == <<pm_devices, pm_func, pm_timeout, results, threads, pm_pc, pm_i,
             pm_ret, pm_late>>

rtVars == <<rt_name, rt_value, rt_pc, params, rt_ret, rt_op, rt_out>>

declVars == <<decl_spec, decl_on, functions, pool_functions, decl_ret>>

setVars == <<set_form, set_pos, set_named, set_dict, set_i, set_pc, set_log>>

wrapVars == <<pw_op, pw_sel, pw_pc, pw_devs, pw_threads, pw_invoked, pw_runs,
              pw_tasks>>

\* what belongs to the pool and to the pure functions, not to one link
notLinkVars == <<devices, queryVars, fanVars, rtVars, declVars, setVars, wrapVars>>

vars == <<linkVars, notLinkVars>>

(***************************************************************************)
(* Transport helpers                                                       *)
(***************************************************************************)
\* ACK_MSG, lvp.py:16
ACK_MSG == "ack"

\* index of the first ACK_MSG line in a buffer, 0 when there is none
RECURSIVE AckIndex(_, _)
AckIndex(buf, i) ==
    IF i > Len(buf) THEN 0
    ELSE IF buf[i] = ACK_MSG THEN i ELSE AckIndex(buf, i + 1)

\* serial.write + self.log, lvp.py:115-117
_send(t, m, via) ==
    /\ tx' = Append(tx, m)
    /\ wire' = Append(wire, [msg |-> m, by |-> t, via |-> via])

(***************************************************************************)
(* Initial state: LVP.__init__, lvp.py:32-69                               *)
(***************************************************************************)
LinkInit ==
    /\ _init = FALSE
    /\ _quiet = FALSE
    /\ _lock = None
    /\ cooled = FALSE
    /\ tx = <<>>
    /\ rx = <<>>
    /\ devMode = "boot"
    /\ bootLeft = MaxBoot
    /\ pc = [t \in Threads |-> IF t = BgThread THEN "bg_off" ELSE "idle"]
    /\ kind = [t \in Threads |-> IF t = BgThread THEN "bgtask" ELSE None]
    /\ scope = [t \in Threads |-> <<>>]
    /\ calls = 0
    /\ keep = FALSE
    /\ wire = <<>>
    /\ forced = FALSE
    /\ timedOut = FALSE
    /\ bgStarts = 0

\* the parts of the state the link model does not use
NoPool == devices = <<>>
\* a call that has not returned yet
Pending == [raised |-> "pending", list |-> <<>>]

NoQuery == q_arg = None /\ q_ret = Pending
NoFanOut ==
    /\ pm_devices = <<>> /\ pm_func = <<>> /\ pm_timeout = FALSE
    /\ results = <<>> /\ threads = <<>> /\ pm_pc = "off" /\ pm_i = 0
    /\ pm_ret = <<>> /\ pm_late = {}
NoRoundTrip ==
    /\ rt_name = <<>> /\ rt_value = None /\ rt_pc = "off" /\ params = <<>>
    /\ rt_ret = None /\ rt_op = None /\ rt_out = <<>>
NoDeclare ==
    /\ decl_spec = <<>> /\ decl_on = None /\ functions = <<>>
    /\ pool_functions = {} /\ decl_ret = None
NoSet ==
    /\ set_form = None /\ set_pos = <<>> /\ set_named = <<>> /\ set_dict = <<>>
    /\ set_i = 0 /\ set_pc = "off" /\ set_log = <<>>
NoWrap ==
    /\ pw_op = None /\ pw_sel = None /\ pw_pc = "off" /\ pw_devs = <<>>
    /\ pw_threads = <<>> /\ pw_invoked = <<>> /\ pw_runs = <<>> /\ pw_tasks = {}

\* groups of variables an action leaves alone
objVars == <<_init, _quiet, _lock, cooled>>
devVars == <<tx, rx, devMode, bootLeft>>
thrVars == <<kind, scope, calls>>
bgVars == <<keep, bgStarts>>
histVars == <<wire, forced, timedOut>>

\* the cancel function has been invoked: keep is False after the start
cancelled == pc[BgThread] # "bg_off" /\ ~keep

\* the send calls between request written and response consumed
inExch == {t \in Threads : pc[t] \in {"send_recv", "send_flush"}}

\* handshakes performed by init so far
handshakes == Cardinality({i \in 1..Len(wire) : wire[i].via = "init"})


Goto(t, l) == pc' = [pc EXCEPT ![t] = l]

\* a thread is back in its caller's code
Return(t) ==
    /\ Goto(t, "idle")
    /\ kind' = [kind EXCEPT ![t] = None]

Top(t) == scope[t][Len(scope[t])]
Pop(t) == SubSeq(scope[t], 1, Len(scope[t]) - 1)

(***************************************************************************)
(* The device and the clock                                                *)
(***************************************************************************)
\* the cooldown deadline of lvp.py:65 passes
CooldownElapses ==
    /\ ~cooled
    /\ cooled' = TRUE
    /\ UNCHANGED notLinkVars
    /\ UNCHANGED <<_init, _quiet, _lock, devVars, pc, thrVars, bgVars, histVars>>

\* the booting device prints a line
DeviceBoot ==
    /\ devMode = "boot"
    /\ bootLeft > 0
    /\ bootLeft' = bootLeft - 1
    /\ rx' = Append(rx, "boot")
    /\ UNCHANGED notLinkVars
    /\ UNCHANGED <<objVars, tx, devMode, pc, thrVars, bgVars, histVars>>

\* the lines a device in manual mode answers a command with
Response(k) == [i \in 1..k |-> IF i = 1 THEN "resp" ELSE "more"]

\* the device handles the next command it received (wire grammar): it
\* acknowledges manual_connect, goes silent on quiet_connect, and answers
\* any other command only in manual mode
DeviceHandle ==
    /\ tx # <<>>
    /\ tx' = Tail(tx)
    /\ \/ /\ Head(tx) = "manual_connect"
          /\ devMode' = "manual"
          /\ rx' = Append(rx, ACK_MSG)
       \/ /\ Head(tx) = "quiet_connect"
          /\ devMode' = "quiet"
          /\ rx' = rx
       \/ /\ Head(tx) = "cmd"
          /\ devMode = "manual"
          /\ \E k \in 1..MaxLines : rx' = rx \o Response(k)
          /\ devMode' = devMode
       \/ /\ Head(tx) = "cmd"
          /\ devMode # "manual"
          /\ UNCHANGED <<rx, devMode>>
    /\ UNCHANGED notLinkVars
    /\ UNCHANGED <<objVars, bootLeft, pc, thrVars, bgVars, histVars>>

(***************************************************************************)
(* LVP.init, lvp.py:82-96                                                  *)
(***************************************************************************)
\* self.init() returns: to init's caller, into background, or into send
InitReturn(t) ==
    CASE kind[t] = "init" -> Return(t)
      [] kind[t] = "background" -> Goto(t, "bg_spawn") /\ kind' = kind
      [] OTHER -> Goto(t, "send_acquire") /\ kind' = kind

\* lvp.py:83: only a direct call of init can pass force=True
init_check(t) ==
    /\ pc[t] = "init_check"
    /\ \E f \in (IF kind[t] = "init" THEN BOOLEAN ELSE {FALSE}) :
          /\ forced' = (forced \/ f)
          /\ IF f \/ ~_init
               THEN Goto(t, "init_acquire") /\ kind' = kind
               ELSE InitReturn(t)
    /\ UNCHANGED notLinkVars
    /\ UNCHANGED <<objVars, devVars, scope, calls, bgVars, wire, timedOut>>

\* lvp.py:84-85: sleep until the deadline, then take the lock
init_acquire(t) ==
    /\ pc[t] = "init_acquire"
    /\ cooled
    /\ _lock = None
    /\ _lock' = t
    /\ Goto(t, "init_drain")
    /\ UNCHANGED notLinkVars
    /\ UNCHANGED <<_init, _quiet, cooled, devVars, thrVars, bgVars, histVars>>

\* lvp.py:86-91: read lines until a read comes back empty
init_drain(t) ==
    /\ pc[t] = "init_drain"
    /\ IF rx # <<>>
         THEN rx' = Tail(rx) /\ pc' = pc
         ELSE rx' = rx /\ Goto(t, "init_write")
    /\ UNCHANGED notLinkVars
    /\ UNCHANGED <<objVars, tx, devMode, bootLeft, thrVars, bgVars, histVars>>

\* lvp.py:93-94
init_write(t) ==
    /\ pc[t] = "init_write"
    /\ Len(wire) < MaxWire
    /\ _send(t, "manual_connect", "init")
    /\ Goto(t, "init_ack")
    /\ UNCHANGED notLinkVars
    /\ UNCHANGED <<objVars, rx, devMode, bootLeft, thrVars, bgVars, forced,
                   timedOut>>

\* init_ack as it would be if the read of the acknowledgment gave up
init_ack_nowait(t) ==
    /\ pc[t] = "init_ack"
    /\ rx' = IF AckIndex(rx, 1) > 0
               THEN SubSeq(rx, AckIndex(rx, 1) + 1, Len(rx)) ELSE <<>>
    /\ Goto(t, "init_release")
    /\ UNCHANGED notLinkVars
    /\ UNCHANGED <<objVars, tx, devMode, bootLeft, thrVars, bgVars, histVars>>

\* lvp.py:95: read_until(ACK_MSG) with no timeout
init_ack(t) ==
    /\ pc[t] = "init_ack"
    /\ AckIndex(rx, 1) > 0
    /\ rx' = SubSeq(rx, AckIndex(rx, 1) + 1, Len(rx))
    /\ Goto(t, "init_release")
    /\ UNCHANGED notLinkVars
    /\ UNCHANGED <<objVars, tx, devMode, bootLeft, thrVars, bgVars, histVars>>

\* lvp.py:85, leaving the with block
init_release(t) ==
    /\ pc[t] = "init_release"
    /\ _lock' = None
    /\ Goto(t, "init_set")
    /\ UNCHANGED notLinkVars
    /\ UNCHANGED <<_init, _quiet, cooled, devVars, thrVars, bgVars, histVars>>

\* lvp.py:96
init_set(t) ==
    /\ pc[t] = "init_set"
    /\ _init' = TRUE
    /\ InitReturn(t)
    /\ UNCHANGED notLinkVars
    /\ UNCHANGED <<_quiet, _lock, cooled, devVars, scope, calls, bgVars,
                   histVars>>

init(t) ==
    \/ init_check(t)
    \/ init_acquire(t)
    \/ init_drain(t)
    \/ init_write(t)
    \/ init_ack(t)
    \/ init_release(t)
    \/ init_set(t)

(***************************************************************************)
(* LVP.send and LVP._recv, lvp.py:98-136                                   *)
(***************************************************************************)
\* the message a thread's send call carries
Msg(t) == IF kind[t] = "quiet_exit" THEN "manual_connect" ELSE "cmd"

\* send_acquire as it would be if send did not wait for the lock
send_acquire_nolock(t) ==
    /\ pc[t] = "send_acquire"
    /\ _lock' = t
    /\ Goto(t, "send_write")
    /\ UNCHANGED notLinkVars
    /\ UNCHANGED <<_init, _quiet, cooled, devVars, thrVars, bgVars, histVars>>

\* lvp.py:108
send_acquire(t) ==
    /\ pc[t] = "send_acquire"
    /\ _lock = None
    /\ _lock' = t
    /\ Goto(t, "send_write")
    /\ UNCHANGED notLinkVars
    /\ UNCHANGED <<_init, _quiet, cooled, devVars, thrVars, bgVars, histVars>>

\* lvp.py:109-110
send_write(t) ==
    /\ pc[t] = "send_write"
    /\ Len(wire) < MaxWire
    /\ _send(t, Msg(t), "send")
    /\ Goto(t, "send_recv")
    /\ UNCHANGED notLinkVars
    /\ UNCHANGED <<objVars, rx, devMode, bootLeft, thrVars, bgVars, forced,
                   timedOut>>

\* lvp.py:111 and 119-128: nothing is read in quiet mode; otherwise
\* read_until(b"\r\n"), which gives up only when the caller of send passed
\* a timeout (get, set, exec, quiet and background pass none)
_recv(t) ==
    /\ pc[t] = "send_recv"
    /\ \/ /\ _quiet
          /\ Goto(t, "send_release")
          /\ UNCHANGED <<rx, timedOut>>
       \/ /\ ~_quiet
          /\ rx # <<>>
          /\ rx' = Tail(rx)
          /\ Goto(t, "send_flush")
          /\ UNCHANGED timedOut
       \/ /\ ~_quiet
          /\ rx = <<>>
          /\ kind[t] = "send"
          /\ timedOut' = TRUE
          /\ Goto(t, "send_flush")
          /\ UNCHANGED rx
    /\ UNCHANGED notLinkVars
    /\ UNCHANGED <<objVars, tx, devMode, bootLeft, thrVars, bgVars, wire,
                   forced>>

\* lvp.py:130-135: keep reading lines until a read comes back empty
send_flush(t) ==
    /\ pc[t] = "send_flush"
    /\ IF rx # <<>>
         THEN rx' = Tail(rx) /\ pc' = pc
         ELSE rx' = rx /\ Goto(t, "send_release")
    /\ UNCHANGED notLinkVars
    /\ UNCHANGED <<objVars, tx, devMode, bootLeft, thrVars, bgVars, histVars>>

\* lvp.py:108, leaving the with block, and 112-113; the caller continues:
\* quiet's exit is over (lvp.py:257), the background task sleeps (lvp.py:204)
send_release(t) ==
    /\ pc[t] = "send_release"
    /\ _lock' = None
    /\ scope' = [scope EXCEPT ![t] = IF kind[t] = "quiet_exit" THEN Pop(t) ELSE @]
    /\ IF t = BgThread
         THEN Goto(t, "bg_sleep") /\ kind' = kind
         ELSE Return(t)
    /\ UNCHANGED notLinkVars
    /\ UNCHANGED <<_init, _quiet, cooled, devVars, calls, bgVars, histVars>>

send(t) ==
    \/ send_acquire(t)
    \/ send_write(t)
    \/ _recv(t)
    \/ send_flush(t)
    \/ send_release(t)

(***************************************************************************)
(* LVP.quiet, lvp.py:246-257                                               *)
(***************************************************************************)
\* lvp.py:251: is_quiet = self._quiet (mark will remember where in wire the
\* scope's quiet_connect went)
quiet_enter(t) ==
    /\ pc[t] = "idle"
    /\ calls < MaxCalls
    /\ scope' = [scope EXCEPT ![t] =
                    Append(@, [is_quiet |-> _quiet, mark |-> 0])]
    /\ calls' = calls + 1
    /\ kind' = [kind EXCEPT ![t] = "quiet"]
    /\ Goto(t, "quiet_write")
    /\ UNCHANGED notLinkVars
    /\ UNCHANGED <<objVars, devVars, bgVars, histVars>>

\* lvp.py:252-254: the command is written with self._send, then the block runs
quiet_write(t) ==
    /\ pc[t] = "quiet_write"
    /\ IF ~Top(t).is_quiet
         THEN /\ Len(wire) < MaxWire
              /\ _send(t, "quiet_connect", "quiet")
              /\ scope' = [scope EXCEPT ![t][Len(scope[t])].mark = Len(wire) + 1]
         ELSE UNCHANGED <<tx, wire, scope>>
    /\ Return(t)
    /\ UNCHANGED notLinkVars
    /\ UNCHANGED <<objVars, rx, devMode, bootLeft, calls, bgVars, forced,
                   timedOut>>

\* quiet_exit as it would be if the exit issued no manual_connect
quiet_exit_noconnect(t) ==
    /\ pc[t] = "idle"
    /\ scope[t] # <<>>
    /\ _quiet' = Top(t).is_quiet
    /\ scope' = [scope EXCEPT ![t] = Pop(t)]
    /\ kind' = [kind EXCEPT ![t] = None]
    /\ UNCHANGED notLinkVars
    /\ UNCHANGED <<_init, _lock, cooled, devVars, pc, calls, bgVars,
                   histVars>>

\* lvp.py:255-257: the block is over; restore the flag, then
\* self.send("manual_connect") when the scope was entered non-quiet
quiet_exit(t) ==
    /\ pc[t] = "idle"
    /\ scope[t] # <<>>
    /\ _quiet' = Top(t).is_quiet
    /\ IF ~Top(t).is_quiet
         THEN /\ kind' = [kind EXCEPT ![t] = "quiet_exit"]
              /\ Goto(t, "init_check")
              /\ scope' = scope
         ELSE /\ scope' = [scope EXCEPT ![t] = Pop(t)]
              /\ kind' = [kind EXCEPT ![t] = None]
              /\ pc' = pc
    /\ UNCHANGED notLinkVars
    /\ UNCHANGED <<_init, _lock, cooled, devVars, calls, bgVars, histVars>>

\* lvp.py:254: the block raises; the error is thrown into the generator at
\* its yield, which has no try around it, so nothing after the yield runs
\* and the error goes on to the caller of the with statement, to which the
\* thread returns with the error raised
quiet_raise(t) ==
    /\ pc[t] = "idle"
    /\ scope[t] # <<>>
    /\ scope' = [scope EXCEPT ![t] = Pop(t)]
    /\ kind' = [kind EXCEPT ![t] = "raised"]
    /\ UNCHANGED notLinkVars
    /\ UNCHANGED <<objVars, devVars, pc, calls, bgVars, histVars>>

quiet(t) ==
    \/ quiet_enter(t)
    \/ quiet_write(t)
    \/ quiet_exit(t)
    \/ quiet_raise(t)

(***************************************************************************)
(* LVP.background, lvp.py:188-212                                          *)
(***************************************************************************)
\* lvp.py:197-212: keep = True, the thread is started, stop is returned
bg_spawn(t) ==
    /\ pc[t] = "bg_spawn"
    /\ keep' = TRUE
    /\ pc' = [pc EXCEPT ![t] = "idle", ![BgThread] = "bg_check"]
    /\ kind' = [kind EXCEPT ![t] = None]
    /\ UNCHANGED notLinkVars
    /\ UNCHANGED <<objVars, devVars, scope, calls, bgStarts, histVars>>

\* lvp.py:206-208: the cancel function
stop(t) ==
    /\ pc[t] = "idle"
    /\ pc[BgThread] # "bg_off"
    /\ keep
    /\ keep' = FALSE
    /\ UNCHANGED notLinkVars
    /\ UNCHANGED <<objVars, devVars, pc, thrVars, bgStarts, histVars>>

\* bg_check as it would be if the loop did not test the flag
bg_check_nokeep ==
    /\ pc[BgThread] = "bg_check"
    /\ Goto(BgThread, "bg_exec")
    /\ UNCHANGED notLinkVars
    /\ UNCHANGED <<objVars, devVars, thrVars, bgVars, histVars>>

\* lvp.py:200: while keep
bg_check ==
    /\ pc[BgThread] = "bg_check"
    /\ Goto(BgThread, IF keep THEN "bg_exec" ELSE "bg_done")
    /\ UNCHANGED notLinkVars
    /\ UNCHANGED <<objVars, devVars, thrVars, bgVars, histVars>>

\* lvp.py:203: self.exec(command) is called
bg_exec ==
    /\ pc[BgThread] = "bg_exec"
    /\ Len(wire) < MaxWire
    /\ bgStarts' = IF cancelled THEN bgStarts + 1 ELSE bgStarts
    /\ Goto(BgThread, "init_check")
    /\ UNCHANGED notLinkVars
    /\ UNCHANGED <<objVars, devVars, thrVars, keep, histVars>>

\* lvp.py:204: time.sleep(period)
bg_sleep ==
    /\ pc[BgThread] = "bg_sleep"
    /\ Goto(BgThread, "bg_check")
    /\ UNCHANGED notLinkVars
    /\ UNCHANGED <<objVars, devVars, thrVars, bgVars, histVars>>

task ==
    \/ bg_check
    \/ bg_exec
    \/ bg_sleep

(***************************************************************************)
(* Calls made by the foreground threads                                    *)
(***************************************************************************)
Call(t, k) ==
    /\ pc[t] = "idle"
    /\ calls < MaxCalls
    /\ calls' = calls + 1
    /\ kind' = [kind EXCEPT ![t] = k]
    /\ Goto(t, "init_check")
    /\ UNCHANGED notLinkVars
    /\ UNCHANGED <<objVars, devVars, scope, bgVars, histVars>>

\* lvp.init(force)
CallInit(t) == Call(t, "init")

\* lvp.send(msg, timeout), and get / set / exec, which go through send
\* (lvp.py:150, 175, 186); self.init() comes first (lvp.py:107)
CallSend(t) == Call(t, "send")

\* lvp.background(command): self.init() comes first (lvp.py:196); the model
\* follows one background task, so background is called once
CallBackground(t) ==
    /\ pc[BgThread] = "bg_off"
    /\ \A u \in Callers : kind[u] # "background"
    /\ Call(t, "background")

Next ==
    \/ CooldownElapses
    \/ DeviceBoot
    \/ DeviceHandle
    \/ \E t \in Threads : init(t)
    \/ \E t \in Threads : send(t)
    \/ \E t \in Callers : quiet(t)
    \/ \E t \in Callers : bg_spawn(t)
    \/ \E t \in Callers : stop(t)
    \/ task
    \/ \E t \in Callers : CallInit(t)
    \/ \E t \in Callers : CallSend(t)
    \/ \E t \in Callers : CallBackground(t)

Init ==
    /\ LinkInit
    /\ NoPool
    /\ NoQuery
    /\ NoFanOut
    /\ NoRoundTrip
    /\ NoDeclare
    /\ NoSet
    /\ NoWrap

Spec == Init /\ [][Next]_vars

(***************************************************************************)
(* Properties of one link                                                  *)
(***************************************************************************)
\* the thread is inside a send call (direct, from the background task, or
\* the manual_connect of a quiet scope's exit)
SendCall(t) == kind[t] \in {"send", "bgtask", "quiet_exit"}

\* positions from which the next step writes to or reads from the transport
AccessPcs == {"init_drain", "init_write", "init_ack",
              "send_write", "send_recv", "send_flush"}

\* C1: exchanges of send calls never overlap: while one send call is between
\* writing its request and having drained its response, it holds the lock and
\* no other send call is at a write or a read of the transport; and when no
\* read ever gave up on a timeout, a request is written only when every
\* earlier response has been consumed.
C1_ExchangesNeverOverlap ==
    /\ \A u \in inExch :
          /\ _lock = u
          /\ \A t \in Threads \ {u} : SendCall(t) => pc[t] \notin AccessPcs
    /\ \A t \in Threads :
          (pc[t] = "send_write" /\ ~timedOut) => rx = <<>>

\* C1 witness: the background task is mid-exchange while a foreground send
\* call waits for the lock
C1_Witness ==
    /\ pc[BgThread] = "send_flush"
    /\ \E t \in Callers : pc[t] = "send_acquire" /\ kind[t] = "send"

\* a step in which thread t writes to or reads from the transport
TransportAccess(t) ==
    \/ init_drain(t)
    \/ init_write(t)
    \/ init_ack(t)
    \/ send_write(t)
    \/ (_recv(t) /\ ~_quiet)
    \/ send_flush(t)
    \/ (quiet_write(t) /\ wire' # wire)

\* C2: every write to and every read from the transport is made by a thread
\* that holds the link's lock.
C2_EveryAccessUnderLock ==
    [][\A t \in Threads : TransportAccess(t) => _lock = t]_vars

\* C3: without init(force=True), init performs its drain and handshake at
\* most once in the life of the link.
C3_HandshakeAtMostOnce == ~forced => handshakes <= 1

\* a step in which thread t leaves a quiet scope
LeavesScope(t) == Len(scope'[t]) < Len(scope[t])

\* a step in which the block of a quiet scope of thread t raises
BlockRaises(t) == LeavesScope(t) /\ kind'[t] = "raised"

\* the position in w of the last write made by thread t, 0 when none
LastWriteBy(w, t) ==
    LET S == {i \in 1..Len(w) : w[i].by = t}
    IN IF S = {} THEN 0 ELSE CHOOSE i \in S : \A j \in S : j <= i

\* the mode the device is in once it has handled the commands in flight
ModeAfter(mode, cmds) ==
    LET S == {i \in 1..Len(cmds) : cmds[i] # "cmd"}
        last == CHOOSE i \in S : \A j \in S : j <= i
    IN IF S = {} THEN mode
       ELSE IF cmds[last] = "manual_connect" THEN "manual" ELSE "quiet"

\* thread u has not left the device in quiet mode: the last mode command it
\* wrote, if any, is a manual_connect
LeftManual(w, u) ==
    LET S == {i \in 1..Len(w) :
                 w[i].by = u /\ w[i].msg \in {"quiet_connect", "manual_connect"}}
    IN S = {} \/ w[CHOOSE i \in S : \A j \in S : j <= i].msg = "manual_connect"

C5_NoStartAfterCancel == bgStarts = 0

\* C5 amended: once cancel has been invoked at most one execution of the
\* command begins, that of the iteration whose loop test had already passed.
C5_AtMostOneStartAfterCancel == bgStarts <= 1

\* C5 witness: the task ended after an execution that began after cancel
C5_Witness == bgStarts = 1 /\ pc[BgThread] = "bg_done"

\* where a thread inside init stands in the lifecycle: 2 AwaitingCooldown,
\* 3 DrainingBoot, 4 Handshaking, 5 about to mark the link Ready
InitPcs == {"init_acquire", "init_drain", "init_write", "init_ack",
            "init_release", "init_set"}
Stage(p) ==
    CASE p = "init_acquire" -> 2
      [] p = "init_drain" -> 3
      [] p \in {"init_write", "init_ack"} -> 4
      [] p \in {"init_release", "init_set"} -> 5

\* the device has handled a manual_connect that init wrote (and so has
\* emitted its acknowledgment)
HandshakeHandled ==
    \E i \in 1..(Len(wire) - Len(tx)) : wire[i].via = "init"

AcksIn(buf) == Cardinality({i \in DOMAIN buf : buf[i] = ACK_MSG})

\* C13: a thread inside init only moves forward through the lifecycle:
\* it starts to drain only once the cooldown deadline has passed, writes
\* manual_connect only after a drain read came back empty, goes past the
\* handshake only by reading an acknowledgment; the link is marked Ready
\* only after all that, with the deadline passed and a handshake handled
\* by the device; and a Ready link stays Ready.
C13_LifecycleForward ==
    [][/\ _init => _init'
       /\ (~_init /\ _init') => (cooled /\ HandshakeHandled)
       /\ \A t \in Threads :
             /\ (pc[t] \in InitPcs /\ pc'[t] \in InitPcs)
                   => Stage(pc'[t]) >= Stage(pc[t])
             /\ (pc[t] = "init_acquire" /\ pc'[t] # pc[t])
                   => (cooled /\ pc'[t] = "init_drain")
             /\ (pc[t] = "init_drain" /\ pc'[t] # pc[t])
                   => (rx = <<>> /\ pc'[t] = "init_write")
             /\ (pc[t] = "init_write" /\ pc'[t] # pc[t])
                   => (wire' = Append(wire, [msg |-> "manual_connect", by |-> t,
                                             via |-> "init"])
                       /\ pc'[t] = "init_ack")
             /\ (pc[t] = "init_ack" /\ pc'[t] # pc[t])
                   => (AcksIn(rx') < AcksIn(rx) /\ pc'[t] = "init_release")
             /\ (~_init /\ _init') => (pc[t] = "init_set" \/ pc'[t] = pc[t])]_vars

\* C13 witness: the link is Ready after exactly one handshake
C13_Witness == _init /\ handshakes = 1 /\ \A t \in Threads : pc[t] \notin InitPcs

\* C14: every command is written through send, which runs init first:
\* whatever is written to the transport while the link is not yet Ready is
\* init's own handshake.
C14_NoCommandBeforeReady ==
    [][wire' # wire => (wire'[Len(wire')].via = "init" \/ _init)]_vars

\* the writes of message m that thread t made through path via, from
\* place p of the wire on
WritesSince(t, m, via, p) ==
    {i \in p..Len(wire) : wire[i] = [msg |-> m, by |-> t, via |-> via]}

\* C15: while a thread is inside an outer quiet scope, whatever the number
\* of scopes nested in it, the one quiet_connect on the wire is the outer
\* scope's, and no manual_connect is sent before the outer scope's exit.
C15_NestedScopeWritesNothing ==
    \A t \in Callers :
        (scope[t] # <<>> /\ scope[t][1].mark > 0) =>
            /\ Cardinality(WritesSince(t, "quiet_connect", "quiet",
                                        scope[t][1].mark)) = 1
            /\ Len(scope[t]) >= 2 =>
                  WritesSince(t, "manual_connect", "send", scope[t][1].mark) = {}

\* C17: when the block of a quiet scope raises, the scope is left with the
\* quiet flag at its value on entry and, for a scope entered non-quiet,
\* with manual_connect sent after the scope's quiet_connect.
C17_FailedBlockRestoresMode ==
    [][\A t \in Callers : quiet_raise(t) =>
          LET e == Top(t)
              m == LastWriteBy(wire', t)
          IN /\ _quiet' = e.is_quiet
             /\ ~e.is_quiet =>
                   /\ m > e.mark
                   /\ wire'[m] = [msg |-> "manual_connect", by |-> t,
                                  via |-> "send"]]_vars

\* thread t is inside a quiet scope: its quiet_connect is written and its
\* exit has not begun
InQuietScope(t) ==
    /\ scope[t] # <<>>
    /\ Top(t).mark > 0
    /\ kind[t] # "quiet_exit"

\* C16: a send made inside a quiet scope, once its command is written,
\* reads nothing from the transport and goes on to return.
C16_SendInScopeDoesNotRead ==
    [][\A t \in Callers :
          (InQuietScope(t) /\ kind[t] = "send" /\ pc[t] = "send_recv"
             /\ pc'[t] # pc[t])
          => (rx' = rx /\ pc'[t] = "send_release")]_vars

(***************************************************************************)
(* LVPPool: construction and query, lvp_pool.py:24-25 and 56-73            *)
(***************************************************************************)
\* LVP.id (lvp.py:26-30); La2 is a second object with the id of La
id(dev) ==
    CASE dev = "La" -> "a" [] dev = "La2" -> "a" [] dev = "Lb" -> "b"
      [] dev = "Lc" -> "c"

\* the LVP objects the query model draws its pools and selectors from
AllLinks == {"La", "Lb", "La2"}
Ids == {"a", "b", "z"}

Range(f) == {f[i] : i \in DOMAIN f}

\* the sequences over S of length at most n
SeqsUpTo(S, n) == UNION {[1..k -> S] : k \in 0..n}

NoDuplicates(f) == \A i, j \in DOMAIN f : f[i] = f[j] => i = j

\* lvp_pool.py:25: {dev.id: dev for dev in devices}: a key keeps the place
\* of its first occurrence and the value of its last
RECURSIVE DictOf(_)
DictOf(devs) ==
    IF devs = <<>> THEN <<>>
    ELSE LET n == Len(devs)
             d == DictOf(SubSeq(devs, 1, n - 1))
             item == [key |-> id(devs[n]), dev |-> devs[n]]
         IN IF \E i \in DOMAIN d : d[i].key = item.key
              THEN [i \in DOMAIN d |-> IF d[i].key = item.key THEN item ELSE d[i]]
              ELSE Append(d, item)

\* the pools there are: LVPPool(devs) for lists of distinct LVP objects
PoolsOf(L) == {DictOf(devs) : devs \in {l \in SeqsUpTo(L, MaxPool) : NoDuplicates(l)}}
Pools == PoolsOf(AllLinks)

\* self.devices.values(), key in self.devices, self.devices[key]
values(d) == [i \in DOMAIN d |-> d[i].dev]
keys(d) == {d[i].key : i \in DOMAIN d}
getitem(d, k) == d[CHOOSE i \in DOMAIN d : d[i].key = k].dev

\* selectors: the wildcard (...), an id, an LVP object, a list of selectors
Wild == [kind |-> "wild", val |-> None, items |-> <<>>]
IdSel(k) == [kind |-> "id", val |-> k, items |-> <<>>]
LinkSel(dev) == [kind |-> "link", val |-> dev, items |-> <<>>]
ListSel(qs) == [kind |-> "list", val |-> None, items |-> qs]

Atoms == {Wild} \cup {IdSel(k) : k \in Ids} \cup {LinkSel(l) : l \in AllLinks}
FlatLists == {ListSel(qs) : qs \in SeqsUpTo(Atoms, MaxList)}
InnerAtoms == {IdSel("a"), LinkSel("Lb")}
InnerLists == {ListSel(qs) : qs \in SeqsUpTo(InnerAtoms, MaxInner)}
NestedLists == {ListSel(qs) : qs \in SeqsUpTo(Atoms \cup InnerLists, MaxOuter)}
Selectors == Atoms \cup FlatLists \cup NestedLists

\* the orders in which a Python set of links can iterate
Orders == {o \in [1..Cardinality(AllLinks) -> AllLinks] : NoDuplicates(o)}

\* list(result) for a set: its members in the set's iteration order
RECURSIVE ListOfSet(_, _)
ListOfSet(S, order) ==
    IF order = <<>> THEN <<>>
    ELSE IF Head(order) \in S
           THEN <<Head(order)>> \o ListOfSet(S, Tail(order))
           ELSE ListOfSet(S, Tail(order))

ValueError == [raised |-> "ValueError", list |-> <<>>]
Returned(l) == [raised |-> None, list |-> l]

\* lvp_pool.py:67-70 spelled with a list: result = []; result.extend(...)
RECURSIVE Concat(_)
Concat(ls) == IF ls = <<>> THEN <<>> ELSE Head(ls) \o Concat(Tail(ls))

\* what the list branch builds from the results of its elements, were it
\* to collect them in a list instead of a set
collect_list(rs, order) == Concat([i \in DOMAIN rs |-> rs[i].list])

\* lvp_pool.py:67-70: result = set(); result.update(...); list(result)
collect(rs, order) == ListOfSet(UNION {Range(rs[i].list) : i \in DOMAIN rs}, order)

\* query as it would be if an id that is not registered selected nothing
RECURSIVE query_lenient(_, _, _)
query_lenient(d, q, order) ==
    CASE q.kind = "wild" -> Returned(values(d))
      [] q.kind = "link" -> query_lenient(d, IdSel(id(q.val)), order)
      [] q.kind = "list" ->
            LET rs == [i \in DOMAIN q.items |-> query_lenient(d, q.items[i], order)]
            IN Returned(collect(rs, order))
      [] q.kind = "id" ->
            IF q.val \in keys(d) THEN Returned(<<getitem(d, q.val)>>)
            ELSE Returned(<<>>)

\* LVPPool.query, lvp_pool.py:56-73
RECURSIVE query(_, _, _)
query(d, q, order) ==
    CASE q.kind = "wild" -> Returned(values(d))
      [] q.kind = "link" -> query(d, IdSel(id(q.val)), order)
      [] q.kind = "list" ->
            LET rs == [i \in DOMAIN q.items |-> query(d, q.items[i], order)]
            IN IF \E i \in DOMAIN rs : rs[i].raised # None
                 THEN ValueError
                 ELSE Returned(collect(rs, order))
      [] q.kind = "id" ->
            IF q.val \in keys(d) THEN Returned(<<getitem(d, q.val)>>)
            ELSE ValueError

NoLink == pc = [t \in Threads |-> "off"] /\ kind = [t \in Threads |-> None]
          /\ scope = [t \in Threads |-> <<>>]
          /\ _init = FALSE /\ _quiet = FALSE /\ _lock = None /\ cooled = FALSE
          /\ tx = <<>> /\ rx = <<>> /\ devMode = "boot" /\ bootLeft = 0
          /\ calls = 0 /\ keep = FALSE /\ wire = <<>> /\ forced = FALSE
          /\ timedOut = FALSE /\ bgStarts = 0

QueryInit ==
    /\ devices \in Pools
    /\ q_arg \in Selectors
    /\ q_ret = Pending
    /\ NoLink
    /\ NoFanOut
    /\ NoRoundTrip
    /\ NoDeclare
    /\ NoSet
    /\ NoWrap

\* pool.query(q_arg)
Query ==
    /\ q_ret = Pending
    /\ \E order \in Orders : q_ret' = query(devices, q_arg, order)
    /\ UNCHANGED <<linkVars, devices, q_arg, fanVars, rtVars, declVars, setVars,
                   wrapVars>>

QueryNext == Query

SpecQuery == QueryInit /\ [][QueryNext]_vars

\* a link selector stands for its id (lvp_pool.py:64-65)
AsId(q) == IF q.kind = "link" THEN IdSel(id(q.val)) ELSE q

\* a list of selectors with links read as ids and repeated elements dropped
RECURSIVE Distinct(_)
Distinct(qs) ==
    IF qs = <<>> THEN <<>>
    ELSE LET n == Len(qs)
             front == Distinct(SubSeq(qs, 1, n - 1))
         IN IF AsId(qs[n]) \in Range(front) THEN front
            ELSE Append(front, AsId(qs[n]))

\* C6: a query that returns returns no link twice; a list selector yields
\* the same set of links as the list with its repeated elements dropped
\* (a link counting as its id); the wildcard yields every registered link
\* exactly once.
C6_QueryDeduplicates ==
    (q_ret.raised = None) =>
        /\ NoDuplicates(q_ret.list)
        /\ q_arg.kind = "list" =>
              \A o \in Orders :
                 LET r == query(devices, ListSel(Distinct(q_arg.items)), o)
                 IN r.raised = None /\ Range(r.list) = Range(q_ret.list)
        /\ q_arg.kind = "wild" =>
              /\ Len(q_ret.list) = Len(devices)
              /\ Range(q_ret.list) = {devices[i].dev : i \in DOMAIN devices}

\* C6 witness: query([a, a, b]) returned the two links registered as a and b
C6_Witness ==
    /\ q_arg = ListSel(<<IdSel("a"), IdSel("a"), IdSel("b")>>)
    /\ q_ret.raised = None
    /\ Len(q_ret.list) = 2

\* the selectors the pool can resolve: the wildcard, a link whose id is
\* registered, a registered id, a list of resolvable selectors
RECURSIVE Resolvable(_, _)
Resolvable(d, q) ==
    CASE q.kind = "wild" -> TRUE
      [] q.kind = "link" -> id(q.val) \in {d[i].key : i \in DOMAIN d}
      [] q.kind = "id" -> q.val \in {d[i].key : i \in DOMAIN d}
      [] q.kind = "list" -> \A i \in DOMAIN q.items : Resolvable(d, q.items[i])

notFanVars == <<linkVars, devices, queryVars, rtVars, declVars, setVars,
                wrapVars>>

\* the links the fan-out model builds its pools from
FanLinks == {"La", "Lb", "Lc"}

\* what func may do for a link: return a value, or raise
FuncResults == {"r1", "r2", "raise"}

\* dict[key] = val on a dict kept as its items in order
setitem(d, k, v) ==
    IF \E i \in DOMAIN d : d[i].key = k
      THEN [i \in DOMAIN d |-> IF d[i].key = k THEN [key |-> k, val |-> v] ELSE d[i]]
      ELSE Append(d, [key |-> k, val |-> v])

\* lvp_pool.py:39-46: the targets are the pool's links (devices=None) or the
\* list a query gave; results = [None] * len(devices); threads are created
FanOutInit ==
    /\ devices \in PoolsOf(FanLinks)
    /\ pm_devices = values(devices)
    /\ pm_func \in [FanLinks -> FuncResults]
    /\ pm_timeout \in BOOLEAN
    /\ results = [i \in DOMAIN pm_devices |-> None]
    /\ threads = [i \in DOMAIN pm_devices |-> "new"]
    /\ pm_pc = "start"
    /\ pm_i = 1
    /\ pm_ret = <<>>
    /\ pm_late = {}
    /\ NoLink
    /\ NoQuery
    /\ NoRoundTrip
    /\ NoDeclare
    /\ NoSet
    /\ NoWrap

\* lvp_pool.py:48-49: for thread in threads: thread.start()
pm_start ==
    /\ pm_pc = "start"
    /\ IF pm_i <= Len(threads)
         THEN /\ threads' = [threads EXCEPT ![pm_i] = "running"]
              /\ pm_i' = pm_i + 1
              /\ pm_pc' = pm_pc
         ELSE /\ pm_pc' = "join"
              /\ pm_i' = 1
              /\ threads' = threads
    /\ UNCHANGED <<notFanVars, pm_devices, pm_func, pm_late,
                   pm_timeout, results, pm_ret>>

\* target as it would be if a failure were stored as the task's result
target_stores_error(i) ==
    /\ threads[i] = "running"
    /\ threads' = [threads EXCEPT ![i] =
                      IF pm_func[pm_devices[i]] = "raise" THEN "raised" ELSE "done"]
    /\ results' = [results EXCEPT ![i] = pm_func[pm_devices[i]]]
    /\ UNCHANGED <<notFanVars, pm_devices, pm_func, pm_late,
                   pm_timeout, pm_pc, pm_i, pm_ret>>

\* lvp_pool.py:43-44: results[i] = func(dev, ...); a raise ends the thread
\* and the assignment is not made
target(i) ==
    /\ threads[i] = "running"
    /\ IF pm_func[pm_devices[i]] = "raise"
         THEN /\ threads' = [threads EXCEPT ![i] = "raised"]
              /\ results' = results
         ELSE /\ threads' = [threads EXCEPT ![i] = "done"]
              /\ results' = [results EXCEPT ![i] = pm_func[pm_devices[i]]]
    /\ UNCHANGED <<notFanVars, pm_devices, pm_func, pm_late,
                   pm_timeout, pm_pc, pm_i, pm_ret>>

\* pm_join as it would be if the caller did not wait for the threads
pm_join_nowait ==
    /\ pm_pc = "join"
    /\ IF pm_i <= Len(threads)
         THEN pm_i' = pm_i + 1 /\ pm_pc' = pm_pc
         ELSE pm_pc' = "collect" /\ pm_i' = 1
    /\ UNCHANGED <<notFanVars, pm_devices, pm_func, pm_late,
                   pm_timeout, results, threads, pm_ret>>

\* lvp_pool.py:51-52: for thread in threads: thread.join(timeout=timeout);
\* join returns when the thread has ended or, given a timeout, when it elapsed
pm_join ==
    /\ pm_pc = "join"
    /\ IF pm_i <= Len(threads)
         THEN /\ \/ /\ threads[pm_i] \in {"done", "raised"}
                    /\ pm_late' = pm_late
                 \/ /\ pm_timeout /\ threads[pm_i] = "running"
                    /\ pm_late' = pm_late \cup {pm_i}
              /\ pm_i' = pm_i + 1
              /\ pm_pc' = pm_pc
         ELSE /\ pm_pc' = "collect"
              /\ pm_i' = 1
              /\ pm_late' = pm_late
    /\ UNCHANGED <<notFanVars, pm_devices, pm_func,
                   pm_timeout, results, threads, pm_ret>>

\* pm_collect as it would be if a slot still unset were given a value
pm_collect_default ==
    /\ pm_pc = "collect"
    /\ IF pm_i <= Len(pm_devices)
         THEN /\ pm_ret' = setitem(pm_ret, id(pm_devices[pm_i]),
                                   IF results[pm_i] = None THEN "r1"
                                   ELSE results[pm_i])
              /\ pm_i' = pm_i + 1
              /\ pm_pc' = pm_pc
         ELSE /\ pm_pc' = "returned"
              /\ UNCHANGED <<pm_i, pm_ret>>
    /\ UNCHANGED <<notFanVars, pm_devices, pm_func, pm_late,
                   pm_timeout, results, threads>>

\* lvp_pool.py:54: {dev.id: res for dev, res in zip(devices, results)}
pm_collect ==
    /\ pm_pc = "collect"
    /\ IF pm_i <= Len(pm_devices)
         THEN /\ pm_ret' = setitem(pm_ret, id(pm_devices[pm_i]), results[pm_i])
              /\ pm_i' = pm_i + 1
              /\ pm_pc' = pm_pc
         ELSE /\ pm_pc' = "returned"
              /\ UNCHANGED <<pm_i, pm_ret>>
    /\ UNCHANGED <<notFanVars, pm_devices, pm_func, pm_late,
                   pm_timeout, results, threads>>

_parallel_map ==
    \/ pm_start
    \/ pm_join
    \/ pm_collect

FanOutNext ==
    \/ _parallel_map
    \/ \E i \in 1..MaxPool : i \in DOMAIN threads /\ target(i)

SpecFanOut == FanOutInit /\ [][FanOutNext]_vars

\* C7: the mapping parallel_map returns has the targets' ids as its keys,
\* one per target and in the targets' order; with no timeout and no failing
\* task the value under each id is what func returned for that link.
C7_FanOutAggregates ==
    pm_pc = "returned" =>
        /\ Len(pm_ret) = Len(pm_devices)
        /\ \A i \in DOMAIN pm_devices : pm_ret[i].key = id(pm_devices[i])
        /\ (~pm_timeout /\ \A i \in DOMAIN pm_devices : pm_func[pm_devices[i]] # "raise")
              => \A i \in DOMAIN pm_devices : pm_ret[i].val = pm_func[pm_devices[i]]

\* C7 witness: a call over three links returned, no timeout, no failure, the
\* links' results not all the same
C7_Witness ==
    /\ pm_pc = "returned"
    /\ Len(pm_devices) = 3
    /\ ~pm_timeout
    /\ \A i \in DOMAIN pm_devices : pm_func[pm_devices[i]] # "raise"
    /\ pm_func[pm_devices[1]] # pm_func[pm_devices[2]]

\* C8: when func raises for a target (and no timeout is given) the call
\* still returns: every task has ended, the failed target's entry is None and
\* every other entry holds that link's own result.
C8_FailureIsContained ==
    (pm_pc = "returned" /\ ~pm_timeout) =>
        \A i \in DOMAIN pm_devices :
            /\ threads[i] \in {"done", "raised"}
            /\ pm_ret[i].val = IF pm_func[pm_devices[i]] = "raise" THEN None
                               ELSE pm_func[pm_devices[i]]

\* C8 witness: a call returned although func raised for one of its targets
\* and returned a value for another
C8_Witness ==
    /\ pm_pc = "returned"
    /\ ~pm_timeout
    /\ \E i, j \in DOMAIN pm_devices :
          /\ pm_func[pm_devices[i]] = "raise"
          /\ threads[i] = "raised"
          /\ pm_func[pm_devices[j]] # "raise"
          /\ pm_ret[j].val = pm_func[pm_devices[j]]

\* C19 as claimed: in the mapping a call with a timeout returns, the entry
\* of every target whose join gave up on the timeout is None.
C19_TimedOutSlotUnset ==
    pm_pc = "returned" => \A i \in pm_late : pm_ret[i].val = None

\* C19 amended: the call returns one entry per target; the entry of a
\* target whose task is still running when the mapping has been assembled
\* is None, and the entry of a target whose join gave up on the timeout is
\* None or, when the task finished before the mapping read its slot, that
\* task's own result; the tasks are left to run.
C19_UnfinishedSlotUnset ==
    pm_pc = "returned" =>
        /\ Len(pm_ret) = Len(pm_devices)
        /\ \A i \in DOMAIN pm_devices :
              /\ threads[i] = "running" => pm_ret[i].val = None
              /\ i \in pm_late =>
                    /\ pm_ret[i].val \in {None, pm_func[pm_devices[i]]} \ {"raise"}
                    /\ threads[i] \in {"running", "done", "raised"}

\* C19 witness: a call returned with one task still running, its entry
\* None, and with the result of a task that finished after its join had
\* given up
C19_Witness ==
    /\ pm_pc = "returned"
    /\ \E i, j \in pm_late :
          /\ threads[i] = "running"
          /\ pm_ret[i].val = None
          /\ threads[j] = "done"
          /\ pm_ret[j].val = pm_func[pm_devices[j]]

(***************************************************************************)
(* Texts.  A text is a sequence of characters; the keywords of the wire    *)
(* grammar ("Parameter", "set to", "set(", "get(") are single symbols,     *)
(* which no name or value of the model can spell.                          *)
(***************************************************************************)
Digits == <<"0", "1", "2", "3", "4", "5", "6", "7", "8", "9">>
Letters == {"a", "b", "c", "d", "e", "f", "g", "h", "i", "j", "k", "l", "m",
            "n", "o", "p", "q", "r", "s", "t", "u", "v", "w", "x", "y", "z"}
\* \w and \s of Python's re; the character classes of lvp.py:11-15
Word == Range(Digits) \cup Letters \cup {"_"}
Space == {" ", "\t", "\n", "\r"}
Newlines == {"\n", "\r"}
Parens == {"(", ")"}

\* the character at place i of s, "" outside s
At(s, i) == IF i \in 1..Len(s) THEN s[i] ELSE ""

\* how many characters from place p on are in class C (not in C when neg)
RECURSIVE Run(_, _, _, _)
Run(s, p, C, neg) ==
    IF p \in 1..Len(s) /\ ((s[p] \in C) # neg)
      THEN 1 + Run(s, p + 1, C, neg)
      ELSE 0

\* str.strip()
RECURSIVE lstrip(_)
lstrip(s) == IF s # <<>> /\ Head(s) \in Space THEN lstrip(Tail(s)) ELSE s
RECURSIVE rstrip(_)
rstrip(s) ==
    IF s # <<>> /\ s[Len(s)] \in Space THEN rstrip(SubSeq(s, 1, Len(s) - 1))
    ELSE s
strip(s) == lstrip(rstrip(s))

\* the place of the first c in s, 0 when there is none
RECURSIVE Find(_, _, _)
Find(s, c, p) ==
    IF p > Len(s) THEN 0 ELSE IF s[p] = c THEN p ELSE Find(s, c, p + 1)

\* str.replace("\r\n", "\n"), lvp.py:113
RECURSIVE replace_crlf(_)
replace_crlf(s) ==
    IF s = <<>> THEN <<>>
    ELSE IF Len(s) >= 2 /\ s[1] = "\r" /\ s[2] = "\n"
           THEN <<"\n">> \o replace_crlf(SubSeq(s, 3, Len(s)))
           ELSE <<Head(s)>> \o replace_crlf(Tail(s))

(***************************************************************************)
(* Values: Python int, float and str, and their text forms                 *)
(***************************************************************************)
IntVal(n) == [type |-> "int", num |-> n, exp |-> 0, text |-> <<>>]
\* the float num * 10^-exp, num not a multiple of 10 unless exp = 0
FloatVal(n, k) == [type |-> "float", num |-> n, exp |-> k, text |-> <<>>]
StrVal(t) == [type |-> "str", num |-> 0, exp |-> 0, text |-> t]

Abs(n) == IF n < 0 THEN -n ELSE n

RECURSIVE NatToText(_)
NatToText(n) ==
    IF n < 10 THEN <<Digits[n + 1]>>
    ELSE NatToText(n \div 10) \o <<Digits[(n % 10) + 1]>>

DigitValue(c) == (CHOOSE i \in 1..10 : Digits[i] = c) - 1

\* the number a run of digits spells; underscores between digits are skipped
RECURSIVE TextToNat(_, _)
TextToNat(s, acc) ==
    IF s = <<>> THEN acc
    ELSE IF Head(s) = "_" THEN TextToNat(Tail(s), acc)
    ELSE TextToNat(Tail(s), 10 * acc + DigitValue(Head(s)))

\* f"{value}" of lvp.py:175: str(int), repr(float), the string itself
format(v) ==
    CASE v.type = "int" ->
            (IF v.num < 0 THEN <<"-">> ELSE <<>>) \o NatToText(Abs(v.num))
      [] v.type = "float" ->
            LET d == NatToText(Abs(v.num))
                pad == IF Len(d) < v.exp + 1 THEN v.exp + 1 - Len(d) ELSE 0
                full == [i \in 1..pad |-> "0"] \o d
                cut == Len(full) - v.exp
            IN (IF v.num < 0 THEN <<"-">> ELSE <<>>)
               \o SubSeq(full, 1, cut) \o <<".">>
               \o (IF v.exp = 0 THEN <<"0">> ELSE SubSeq(full, cut + 1, Len(full)))
      [] OTHER -> v.text

\* digits, with single underscores allowed between digits
DigitGroup(s) ==
    /\ s # <<>>
    /\ \A i \in DOMAIN s :
          \/ s[i] \in Range(Digits)
          \/ s[i] = "_" /\ At(s, i - 1) \in Range(Digits)
                        /\ At(s, i + 1) \in Range(Digits)

Unsigned(s) == IF s # <<>> /\ Head(s) \in {"+", "-"} THEN Tail(s) ELSE s
Negative(s) == s # <<>> /\ Head(s) = "-"

\* int(text) succeeds
IsIntText(s) == DigitGroup(Unsigned(strip(s)))
int(s) ==
    LET n == TextToNat(Unsigned(strip(s)), 0)
    IN IntVal(IF Negative(strip(s)) THEN -n ELSE n)

\* float(text) succeeds: digits with an optional point (the exponent, inf
\* and nan forms need characters the model's texts do not have)
IsFloatText(s) ==
    LET u == Unsigned(strip(s))
        p == Find(u, ".", 1)
        ip == IF p = 0 THEN u ELSE SubSeq(u, 1, p - 1)
        fp == IF p = 0 THEN <<>> ELSE SubSeq(u, p + 1, Len(u))
    IN /\ ip # <<>> \/ fp # <<>>
       /\ ip = <<>> \/ DigitGroup(ip)
       /\ fp = <<>> \/ DigitGroup(fp)

RECURSIVE Normal(_, _)
Normal(n, k) ==
    IF k > 0 /\ n % 10 = 0 THEN Normal(n \div 10, k - 1) ELSE FloatVal(n, k)

float(s) ==
    LET u == Unsigned(strip(s))
        p == Find(u, ".", 1)
        ip == IF p = 0 THEN u ELSE SubSeq(u, 1, p - 1)
        fp == IF p = 0 THEN <<>> ELSE SubSeq(u, p + 1, Len(u))
        k == Cardinality({i \in DOMAIN fp : fp[i] # "_"})
        v == Normal(TextToNat(ip \o fp, 0), k)
    IN IF Negative(strip(s)) THEN FloatVal(-v.num, v.exp) ELSE v

\* normalize_response as it would be if float were tried before int
normalize_response_float_first(value) ==
    IF IsFloatText(value) THEN float(value)
    ELSE IF IsIntText(value) THEN int(value)
    ELSE StrVal(strip(value))

\* normalize_response, lvp.py:329-346
normalize_response(value) ==
    IF IsIntText(value) THEN int(value)
    ELSE IF IsFloatText(value) THEN float(value)
    ELSE StrVal(strip(value))

(***************************************************************************)
(* The parameter protocol: LVP._set and LVP._get, lvp.py:149-180           *)
(***************************************************************************)
NoMatch == [ok |-> FALSE, name |-> <<>>, value |-> <<>>]

\* GET_RESP_RE matched at place i, lvp.py:12:
\*   Parameter\s+'(?P<name>[\w_]+)':\s+(?P<value>[^\n\r]+)
\* the second \s+ is greedy and gives characters back until a value follows
GetAt(s, i) ==
    LET w1 == Run(s, i + 1, Space, FALSE)
        q1 == i + 1 + w1
        n == Run(s, q1 + 1, Word, FALSE)
        q2 == q1 + 1 + n
        a == q2 + 2
        w2 == Run(s, a, Space, FALSE)
        K == {k \in 1..w2 : a + k <= Len(s) /\ s[a + k] \notin Newlines}
        k == CHOOSE x \in K : \A y \in K : y <= x
        v == Run(s, a + k, Newlines, TRUE)
    IN IF /\ At(s, i) = "Parameter"
          /\ w1 >= 1
          /\ At(s, q1) = "'"
          /\ n >= 1
          /\ At(s, q2) = "'"
          /\ At(s, q2 + 1) = ":"
          /\ K # {}
         THEN [ok |-> TRUE, name |-> SubSeq(s, q1 + 1, q1 + n),
               value |-> SubSeq(s, a + k, a + k + v - 1)]
         ELSE NoMatch

\* SET_RESP_RE matched at place i, lvp.py:13-15:
\*   Parameter\s+'(?P<name>[\w_]+)'\s+set to\s+'(?P<value>[^\n\r']+)'
SetAt(s, i) ==
    LET w1 == Run(s, i + 1, Space, FALSE)
        q1 == i + 1 + w1
        n == Run(s, q1 + 1, Word, FALSE)
        q2 == q1 + 1 + n
        w2 == Run(s, q2 + 1, Space, FALSE)
        q3 == q2 + 1 + w2
        w3 == Run(s, q3 + 1, Space, FALSE)
        q4 == q3 + 1 + w3
        v == Run(s, q4 + 1, Newlines \cup {"'"}, TRUE)
    IN IF /\ At(s, i) = "Parameter"
          /\ w1 >= 1
          /\ At(s, q1) = "'"
          /\ n >= 1
          /\ At(s, q2) = "'"
          /\ w2 >= 1
          /\ At(s, q3) = "set to"
          /\ w3 >= 1
          /\ At(s, q4) = "'"
          /\ v >= 1
          /\ At(s, q4 + 1 + v) = "'"
         THEN [ok |-> TRUE, name |-> SubSeq(s, q1 + 1, q1 + n),
               value |-> SubSeq(s, q4 + 1, q4 + v)]
         ELSE NoMatch

\* re.search: the match at the first place that has one
GET_RESP_RE(s) ==
    LET P == {i \in DOMAIN s : GetAt(s, i).ok}
    IN IF P = {} THEN NoMatch ELSE GetAt(s, CHOOSE i \in P : \A j \in P : i <= j)
SET_RESP_RE(s) ==
    LET P == {i \in DOMAIN s : SetAt(s, i).ok}
    IN IF P = {} THEN NoMatch ELSE SetAt(s, CHOOSE i \in P : \A j \in P : i <= j)

\* the device's parameters, kept as (key, val) items
stored(d, k) ==
    IF \E i \in DOMAIN d : d[i].key = k
      THEN d[CHOOSE i \in DOMAIN d : d[i].key = k].val
      ELSE <<>>

\* the device that stores parameters and answers per the wire grammar: it
\* reads set(NAME,VALUE) up to the first comma and the closing parenthesis,
\* and get(NAME); it answers with one line ended by \r\n
DeviceAnswer(store, cmd) ==
    LET body == SubSeq(cmd, 2, Len(cmd) - 2)
        c == Find(body, ",", 1)
        sname == SubSeq(body, 1, c - 1)
        svalue == SubSeq(body, c + 1, Len(body))
    IN IF Head(cmd) = "set("
         THEN [store |-> setitem(store, sname, svalue),
               out |-> <<"Parameter", " ", "'">> \o sname
                       \o <<"'", " ", "set to", " ", "'">> \o svalue
                       \o <<"'", "\r", "\n">>]
         ELSE [store |-> store,
               out |-> <<"Parameter", " ", "'">> \o body \o <<"'", ":", " ">>
                       \o stored(store, body) \o <<"\r", "\n">>]

\* LVP.send on a Ready, non-quiet link, lvp.py:104-113: the newline is
\* added, the device answers, \r\n becomes \n in what is returned
Exchange(store, msg) ==
    LET ans == DeviceAnswer(store, msg \o <<"\n">>)
    IN [store |-> ans.store, out |-> replace_crlf(ans.out)]

RuntimeError(out) == [type |-> "RuntimeError", num |-> 0, exp |-> 0, text |-> out]
NoValue == [type |-> "pending", num |-> 0, exp |-> 0, text |-> <<>>]

\* the names, and the values set: integers, floats with one decimal, strings
Names == {<<"n">>, <<"x", "_", "1">>, <<"a", "-", "b">>}
Alphabet == {"1", ".", "-", "a", " ", "'"}
Values ==
    {IntVal(n) : n \in -MaxInt..MaxInt}
    \cup {FloatVal(n, 0) : n \in -MaxInt..MaxInt}
    \cup {FloatVal(n, 1) : n \in {m \in -MaxInt..MaxInt : m % 10 # 0}}
    \cup {StrVal(t) : t \in SeqsUpTo(Alphabet, MaxLen)}

RoundTripInit ==
    /\ rt_name \in Names
    /\ rt_value \in Values
    /\ rt_pc = "set"
    /\ params = <<>>
    /\ rt_ret = NoValue
    /\ rt_op = "set_get"
    /\ rt_out = <<>>
    /\ NoLink
    /\ NoPool
    /\ NoQuery
    /\ NoFanOut
    /\ NoDeclare
    /\ NoSet
    /\ NoWrap

notRtVars == <<linkVars, devices, queryVars, fanVars, declVars, setVars,
               wrapVars>>

\* bad_response as it would be if the name in the response were not compared
bad_response_any_name(m, name) == ~m.ok

\* lvp.py:154 and 179: not m or data["name"] != name
bad_response(m, name) == ~m.ok \/ m.name # name

\* LVP._set(name, value), lvp.py:174-180
_set ==
    /\ rt_pc = "set"
    /\ LET x == Exchange(params, <<"set(">> \o rt_name \o <<",">> \o format(rt_value) \o <<")">>)
           m == SET_RESP_RE(x.out)
       IN /\ params' = x.store
          /\ rt_out' = x.out
          /\ IF bad_response(m, rt_name)
               THEN rt_ret' = RuntimeError(x.out) /\ rt_pc' = "done"
               ELSE rt_ret' = rt_ret /\ rt_pc' = "get"
    /\ UNCHANGED <<notRtVars, rt_name, rt_value, rt_op>>

\* LVP._get(name), lvp.py:149-157
_get ==
    /\ rt_pc = "get"
    /\ LET x == Exchange(params, <<"get(">> \o rt_name \o <<")">>)
           m == GET_RESP_RE(x.out)
       IN /\ params' = x.store
          /\ rt_out' = x.out
          /\ IF bad_response(m, rt_name)
               THEN rt_ret' = RuntimeError(x.out)
               ELSE rt_ret' = normalize_response(m.value)
    /\ rt_pc' = "done"
    /\ UNCHANGED <<notRtVars, rt_name, rt_value, rt_op>>

RoundTripNext ==
    \/ _set
    \/ _get

SpecRoundTrip == RoundTripInit /\ [][RoundTripNext]_vars

\* the value numeric coercion makes of the value set
Coerced(v) == IF v.type = "str" THEN normalize_response(v.text) ELSE v

\* C9 as claimed: for every name and every value, get after set returns the
\* value set, after numeric coercion.
C9_RoundTrip == rt_pc = "done" => rt_ret = Coerced(rt_value)

\* the names and values that pass the grammar of the responses: a name of
\* word characters, a value whose text is not empty and does not begin with
\* a quote
PassesGrammar(name, v) ==
    /\ \A i \in DOMAIN name : name[i] \in Word
    /\ format(v) # <<>>
    /\ Head(format(v)) # "'"

\* C9 amended: for such names and values, get after set returns the value
\* set, after numeric coercion.
C9_RoundTripWithinGrammar ==
    (rt_pc = "done" /\ PassesGrammar(rt_name, rt_value))
        => rt_ret = Coerced(rt_value)

\* C9 witness: an integer came back as that integer
C9_Witness ==
    /\ rt_pc = "done"
    /\ rt_value = IntVal(-12)
    /\ rt_ret = IntVal(-12)

(***************************************************************************)
(* One get or one set against a device that may answer anything            *)
(***************************************************************************)
\* set returns None
NoneVal == [type |-> "None", num |-> 0, exp |-> 0, text |-> <<>>]

\* the thread that makes the call
Caller == "t1"

\* what a device may answer: nothing, a line that is not a parameter line,
\* and parameter lines in the get and the set form, for the name asked or
\* another, with or without a value, alone or after a line of chatter
RespNames == Names \cup {<<"m">>}
RespValues == {<<>>, <<"1">>, <<"'">>}
Chatter == {<<>>, <<"o", "k", "\r", "\n">>}
GetLine(n, v) ==
    <<"Parameter", " ", "'">> \o n \o <<"'", ":", " ">> \o v \o <<"\r", "\n">>
SetLine(n, v) ==
    <<"Parameter", " ", "'">> \o n \o <<"'", " ", "set to", " ", "'">> \o v
    \o <<"'", "\r", "\n">>
Responses ==
    Chatter
    \cup {c \o GetLine(n, v) : c \in Chatter, n \in RespNames, v \in RespValues}
    \cup {c \o SetLine(n, v) : c \in Chatter, n \in RespNames, v \in RespValues}

\* a Ready, non-quiet link with its lock free; a thread about to call
\* get(name) or set(name, value)
ProtocolInit ==
    /\ rt_op \in {"get", "set"}
    /\ rt_name \in Names
    /\ rt_value \in {IntVal(1), StrVal(<<"a">>)}
    /\ rt_pc = "call"
    /\ params = <<>>
    /\ rt_ret = NoValue
    /\ rt_out = <<>>
    /\ pc = [t \in Threads |-> "off"] /\ kind = [t \in Threads |-> None]
    /\ scope = [t \in Threads |-> <<>>]
    /\ _init = TRUE /\ _quiet = FALSE /\ _lock = None /\ cooled = TRUE
    /\ tx = <<>> /\ rx = <<>> /\ devMode = "manual" /\ bootLeft = 0
    /\ calls = 0 /\ keep = FALSE /\ wire = <<>> /\ forced = FALSE
    /\ timedOut = FALSE /\ bgStarts = 0
    /\ NoPool
    /\ NoQuery
    /\ NoFanOut
    /\ NoDeclare
    /\ NoSet
    /\ NoWrap

\* lvp.py:150 and 175, into send: self.init() returns at once on a Ready
\* link (lvp.py:83) and the lock is taken (lvp.py:108)
param_acquire ==
    /\ rt_pc = "call"
    /\ _init
    /\ _lock = None
    /\ _lock' = Caller
    /\ rt_pc' = "exchange"
    /\ UNCHANGED <<_init, _quiet, cooled, devVars, pc, thrVars, bgVars, histVars,
                   devices, queryVars, fanVars, declVars, setVars, wrapVars,
                   rt_name, rt_value, params, rt_ret, rt_op, rt_out>>

\* lvp.py:109-111: the command is written and the response read, under the
\* lock; out is what the device answered
param_exchange ==
    /\ rt_pc = "exchange"
    /\ _lock = Caller
    /\ \E r \in Responses : rt_out' = r
    /\ rt_pc' = "release"
    /\ UNCHANGED <<notRtVars, rt_name, rt_value, params, rt_ret, rt_op>>

\* lvp.py:108, leaving the with block, and 113: \r\n becomes \n in the text
\* returned
param_release ==
    /\ rt_pc = "release"
    /\ _lock' = None
    /\ rt_out' = replace_crlf(rt_out)
    /\ rt_pc' = "match"
    /\ UNCHANGED <<_init, _quiet, cooled, devVars, pc, thrVars, bgVars, histVars,
                   devices, queryVars, fanVars, declVars, setVars, wrapVars,
                   rt_name, rt_value, params, rt_ret, rt_op>>

\* lvp.py:151-157 and 176-180: the response is matched; a bad response
\* raises RuntimeError with the text, get returns the value coerced
param_match ==
    /\ rt_pc = "match"
    /\ LET m == IF rt_op = "get" THEN GET_RESP_RE(rt_out)
                ELSE SET_RESP_RE(rt_out)
       IN rt_ret' = IF bad_response(m, rt_name) THEN RuntimeError(rt_out)
                    ELSE IF rt_op = "get" THEN normalize_response(m.value)
                    ELSE NoneVal
    /\ rt_pc' = "done"
    /\ UNCHANGED <<notRtVars, rt_name, rt_value, params, rt_op, rt_out>>

ProtocolNext ==
    \/ param_acquire
    \/ param_exchange
    \/ param_release
    \/ param_match

SpecProtocol == ProtocolInit /\ [][ProtocolNext]_vars

\* the response has no match for the grammar of the call, or the name it
\* matched is not the name asked
Mismatch ==
    LET m == IF rt_op = "get" THEN GET_RESP_RE(rt_out) ELSE SET_RESP_RE(rt_out)
    IN ~m.ok \/ m.name # rt_name

\* C11: when the response has no match for the expected grammar, or the
\* name matched differs from the name asked, get and set end in a
\* RuntimeError that carries the response text (so get returns no value),
\* with the lock released and the Ready state and quiet flag unchanged.
C11_BadResponseRaises ==
    (rt_pc = "done" /\ Mismatch) =>
        /\ rt_ret = RuntimeError(rt_out)
        /\ _lock = None
        /\ _init
        /\ ~_quiet

\* C11 witness: the response was a well-formed line for another parameter
\* and the call raised
C11_Witness ==
    /\ rt_pc = "done"
    /\ rt_op = "get"
    /\ rt_name = <<"n">>
    /\ GET_RESP_RE(rt_out).ok
    /\ GET_RESP_RE(rt_out).name = <<"m">>
    /\ rt_ret = RuntimeError(rt_out)

(***************************************************************************)
(* LVP.set with several assignments, lvp.py:159-172                        *)
(***************************************************************************)
notSetVars == <<linkVars, devices, queryVars, fanVars, rtVars, declVars,
                wrapVars>>

\* the parameter names assigned
Keys == {"a", "b", "c"}

\* the assignments a caller can write: distinct keys, in an order; the
\* positional ones carry the value 1 and the named ones the value 2
Assignments(v) ==
    {[i \in DOMAIN ks |-> [key |-> ks[i], val |-> v]] :
        ks \in {l \in SeqsUpTo(Keys, MaxAssign) : NoDuplicates(l)}}

\* dict.update, and {**d, **items}: setitem for each item in turn
RECURSIVE update(_, _)
update(d, items) ==
    IF items = <<>> THEN d
    ELSE update(setitem(d, Head(items).key, Head(items).val), Tail(items))

\* lvp.py:163-167: kwargs = {**args[0], **kwargs} for one positional
\* argument; kwargs[key] = value for two
merge_kwargs(form, pos, named) ==
    CASE form = "mapping" -> update(pos, named)
      [] form = "pair" -> setitem(named, pos[1].key, pos[1].val)
      [] OTHER -> named

SetInit ==
    /\ \/ set_form = "none" /\ set_pos = <<>>
       \/ set_form = "mapping" /\ set_pos \in Assignments(1)
       \/ set_form = "pair" /\ set_pos \in {p \in Assignments(1) : Len(p) = 1}
       \/ set_form = "three" /\ set_pos = <<>>
    /\ set_named \in Assignments(2)
    /\ set_dict = <<>>
    /\ set_i = 0
    /\ set_pc = "call"
    /\ set_log = <<>>
    /\ NoLink
    /\ NoPool
    /\ NoQuery
    /\ NoFanOut
    /\ NoRoundTrip
    /\ NoDeclare
    /\ NoWrap

\* lvp.py:163-169
set_merge ==
    /\ set_pc = "call"
    /\ IF set_form = "three"
         THEN /\ set_pc' = "TypeError"
              /\ UNCHANGED <<set_dict, set_i>>
         ELSE /\ set_dict' = merge_kwargs(set_form, set_pos, set_named)
              /\ set_i' = 1
              /\ set_pc' = "loop"
    /\ UNCHANGED <<notSetVars, set_form, set_pos, set_named, set_log>>

\* lvp.py:171-172 into 175: the next item's set(k,v) is written
set_send ==
    /\ set_pc = "loop"
    /\ set_i <= Len(set_dict)
    /\ set_log' = Append(set_log, [ev |-> "request", key |-> set_dict[set_i].key,
                                   val |-> set_dict[set_i].val])
    /\ set_pc' = "wait"
    /\ UNCHANGED <<notSetVars, set_form, set_pos, set_named, set_dict, set_i>>

\* lvp.py:175-180: the response is read; a bad response raises RuntimeError
\* out of the loop
set_recv ==
    /\ set_pc = "wait"
    /\ set_log' = Append(set_log, [ev |-> "response", key |-> set_dict[set_i].key,
                                   val |-> set_dict[set_i].val])
    /\ \E good \in BOOLEAN :
          IF good THEN set_i' = set_i + 1 /\ set_pc' = "loop"
          ELSE set_i' = set_i /\ set_pc' = "RuntimeError"
    /\ UNCHANGED <<notSetVars, set_form, set_pos, set_named, set_dict>>

\* lvp.py:171: the items are exhausted and set returns
set_return ==
    /\ set_pc = "loop"
    /\ set_i > Len(set_dict)
    /\ set_pc' = "done"
    /\ UNCHANGED <<notSetVars, set_form, set_pos, set_named, set_dict, set_i,
                   set_log>>

SetNext ==
    \/ set_merge
    \/ set_send
    \/ set_recv
    \/ set_return

SpecSet == SetInit /\ [][SetNext]_vars

\* the keys of a list of items, and a list with its repeats dropped
KeysOf(items) == [i \in DOMAIN items |-> items[i].key]
RECURSIVE FirstOccurrences(_)
FirstOccurrences(ks) ==
    IF ks = <<>> THEN <<>>
    ELSE LET front == FirstOccurrences(SubSeq(ks, 1, Len(ks) - 1))
         IN IF ks[Len(ks)] \in Range(front) THEN front
            ELSE Append(front, ks[Len(ks)])

\* the log is a run of exchanges, each request followed by its response,
\* and these are the keys of the exchanges
Sequential(log) ==
    /\ Len(log) % 2 = 0
    /\ \A i \in DOMAIN log :
          /\ log[i].ev = (IF i % 2 = 1 THEN "request" ELSE "response")
          /\ i % 2 = 0 => log[i].key = log[i - 1].key
ExchangeKeys(log) == [i \in 1..(Len(log) \div 2) |-> log[2 * i - 1].key]

\* C18 as claimed: a set that returns has made one exchange per distinct
\* key, each complete before the next, in the order the caller supplied the
\* keys: the positional mapping or key/value pair first, then the named
\* arguments in their written order.
C18_SetInOrderSupplied ==
    set_pc = "done" =>
        /\ Sequential(set_log)
        /\ ExchangeKeys(set_log)
             = FirstOccurrences(KeysOf(set_pos) \o KeysOf(set_named))

(***************************************************************************)
(* LVP.declare, lvp.py:214-234, and LVPPool.declare, lvp_pool.py:90-107    *)
(***************************************************************************)
\* FUNC_SPEC_RE.fullmatch(spec) succeeds, lvp.py:11 and 218:
\*   (?P<name>[\w_]+)\((?P<args>[^()]*)\)
FUNC_SPEC_RE(spec) ==
    LET n == Run(spec, 1, Word, FALSE)
        a == Run(spec, n + 2, Parens, TRUE)
    IN IF /\ n >= 1
          /\ At(spec, n + 1) = "("
          /\ At(spec, n + 2 + a) = ")"
          /\ n + 2 + a = Len(spec)
         THEN [ok |-> TRUE, name |-> SubSeq(spec, 1, n),
               args |-> SubSeq(spec, n + 2, n + 1 + a)]
         ELSE [ok |-> FALSE, name |-> <<>>, args |-> <<>>]

\* spec.split("(")[0], lvp_pool.py:95
BeforeParen(spec) ==
    LET p == Find(spec, "(", 1)
    IN IF p = 0 THEN spec ELSE SubSeq(spec, 1, p - 1)

\* the outcome of LVP.declare(spec): the error raised, or the function's name
LVP_declare(spec) ==
    LET m == FUNC_SPEC_RE(spec)
    IN IF ~m.ok THEN [raised |-> "ValueError", name |-> <<>>]
       ELSE [raised |-> None, name |-> m.name]

SpecAlphabet == {"f", "-", "(", ")", ","}

DeclareInit ==
    /\ decl_spec \in SeqsUpTo(SpecAlphabet, MaxSpec)
    /\ \/ decl_on = "link" /\ devices = <<>>
       \/ decl_on = "pool" /\ devices \in Pools
    /\ functions = [l \in AllLinks |-> {}]
    /\ pool_functions = {}
    /\ decl_ret = "pending"
    /\ NoLink
    /\ NoQuery
    /\ NoFanOut
    /\ NoRoundTrip
    /\ NoSet
    /\ NoWrap

notDeclVars == <<linkVars, devices, queryVars, fanVars, rtVars, setVars,
                 wrapVars>>

\* La.declare(spec), bind=True: lvp.py:218-234
declare ==
    /\ decl_on = "link"
    /\ decl_ret = "pending"
    /\ LET r == LVP_declare(decl_spec)
       IN IF r.raised # None
            THEN decl_ret' = r.raised /\ functions' = functions
            ELSE /\ decl_ret' = "returned"
                 /\ functions' = [functions EXCEPT !["La"] = @ \cup {r.name}]
    /\ UNCHANGED <<notDeclVars, decl_spec, decl_on, pool_functions>>

\* pool.declare(spec), bind=True: lvp_pool.py:94-107; every member's
\* declare is called with bind=False, the first error ends the call
pool_declare ==
    /\ decl_on = "pool"
    /\ decl_ret = "pending"
    /\ IF \E i \in DOMAIN devices : LVP_declare(decl_spec).raised # None
         THEN decl_ret' = "ValueError" /\ pool_functions' = pool_functions
         ELSE /\ decl_ret' = "returned"
              /\ pool_functions' = pool_functions \cup {BeforeParen(decl_spec)}
    /\ UNCHANGED <<notDeclVars, decl_spec, decl_on, functions>>

DeclareNext ==
    \/ declare
    \/ pool_declare

SpecDeclare == DeclareInit /\ [][DeclareNext]_vars

\* a specification of the form name(arg, ...): a name of word characters,
\* then the arguments between one pair of parentheses with none inside
WellFormedSpec(spec) ==
    \E i \in 2..(Len(spec) - 1) :
        /\ spec[i] = "("
        /\ spec[Len(spec)] = ")"
        /\ \A j \in 1..(i - 1) : spec[j] \in Word
        /\ \A j \in (i + 1)..(Len(spec) - 1) : spec[j] \notin Parens

\* C10: declare on a specification not of the form name(arg, ...) raises the
\* parse error, registers no function on a link or on the pool and writes
\* nothing to the wire, on a link and on a pool alike.
C10_MalformedSpecRejected ==
    (decl_ret # "pending" /\ ~WellFormedSpec(decl_spec)) =>
        /\ decl_ret = "ValueError"
        /\ \A l \in AllLinks : functions[l] = {}
        /\ pool_functions = {}
        /\ wire = <<>>

(***************************************************************************)
(* The pool's wrappers get, set, exec and background, lvp_pool.py:75-88    *)
(* and 109-113, seen from the links: which single-link operation each      *)
(* target thread invokes, how many times cmd has been executed on a link   *)
(* and which links have a periodic task.  A link's background method can   *)
(* also be called directly by the user (lvp.py:188-212).                   *)
(***************************************************************************)
notWrapVars == <<linkVars, devices, queryVars, fanVars, rtVars, declVars,
                 setVars>>

\* how many times a periodic task executes its command in the model
MaxRuns == 2

WrapperOps == {"get", "set", "exec", "background"}
WrapSelectors == Atoms \cup InnerLists

\* the single-link method the wrapper's lambda calls:
\* get: d.get(*args), set: d.set(*args, **kwargs), exec: d.exec(cmd),
\* background: d.exec(cmd)
dispatch(op) ==
    CASE op = "get" -> "get"
      [] op = "set" -> "set"
      [] op = "exec" -> "exec"
      [] op = "background" -> "exec"

WrapInit ==
    /\ devices \in Pools
    /\ pw_op \in WrapperOps
    /\ pw_sel \in WrapSelectors
    /\ pw_pc = "call"
    /\ pw_devs = <<>>
    /\ pw_threads = <<>>
    /\ pw_invoked = [l \in AllLinks |-> <<>>]
    /\ pw_runs = [l \in AllLinks |-> 0]
    /\ pw_tasks = {}
    /\ NoLink
    /\ NoQuery
    /\ NoFanOut
    /\ NoRoundTrip
    /\ NoDeclare
    /\ NoSet

\* the wrapper up to the end of _parallel_map's start loop: the selector is
\* resolved by query and one thread per resolved link is started
\* (lvp_pool.py:80-81, 87-88, 110, 113 and 39-49)
pool_wrapper ==
    /\ pw_pc = "call"
    /\ \E order \in Orders :
          LET r == query(devices, pw_sel, order)
          IN IF r.raised # None
               THEN /\ pw_pc' = "ValueError"
                    /\ UNCHANGED <<pw_devs, pw_threads>>
               ELSE /\ pw_pc' = "running"
                    /\ pw_devs' = r.list
                    /\ pw_threads' = [i \in DOMAIN r.list |-> "running"]
    /\ UNCHANGED <<notWrapVars, pw_op, pw_sel, pw_invoked, pw_runs, pw_tasks>>

\* what a single-link operation does to its link: exec executes cmd once
\* (lvp.py:182-186), background starts the periodic task (lvp.py:197-212),
\* get and set execute no command
link_runs(op, n) == IF op = "exec" THEN n + 1 ELSE n
link_tasks(op, l, by) == IF op = "background" THEN {[link |-> l, by |-> by]} ELSE {}

\* lvp_pool.py:43-44: the thread of target i calls the lambda on its link
pool_target(i) ==
    /\ pw_pc = "running"
    /\ i \in DOMAIN pw_threads
    /\ pw_threads[i] = "running"
    /\ LET l == pw_devs[i]
           op == dispatch(pw_op)
       IN /\ pw_invoked' = [pw_invoked EXCEPT
                               ![l] = Append(@, [op |-> op, by |-> "pool"])]
          /\ pw_runs' = [pw_runs EXCEPT ![l] = link_runs(op, @)]
          /\ pw_tasks' = pw_tasks \cup link_tasks(op, l, "pool")
    /\ pw_threads' = [pw_threads EXCEPT ![i] = "done"]
    /\ UNCHANGED <<notWrapVars, pw_op, pw_sel, pw_pc, pw_devs>>

\* lvp_pool.py:51-54: every thread is joined, no timeout being passed on,
\* and the wrapper returns
pool_return ==
    /\ pw_pc = "running"
    /\ \A i \in DOMAIN pw_threads : pw_threads[i] = "done"
    /\ pw_pc' = "returned"
    /\ UNCHANGED <<notWrapVars, pw_op, pw_sel, pw_devs, pw_threads, pw_invoked,
                   pw_runs, pw_tasks>>

\* the user calls a pooled link's own background(cmd), lvp.py:188-212
link_background(l) ==
    /\ l \in Range(values(devices))
    /\ \A k \in pw_tasks : k.link # l
    /\ pw_invoked' = [pw_invoked EXCEPT
                         ![l] = Append(@, [op |-> "background", by |-> "user"])]
    /\ pw_tasks' = pw_tasks \cup link_tasks("background", l, "user")
    /\ UNCHANGED <<notWrapVars, pw_op, pw_sel, pw_pc, pw_devs, pw_threads,
                   pw_runs>>

\* lvp.py:200-204: one more turn of a link's periodic task, which nothing
\* in the model cancels
link_task(l) ==
    /\ \E k \in pw_tasks : k.link = l
    /\ pw_runs[l] < MaxRuns
    /\ pw_runs' = [pw_runs EXCEPT ![l] = @ + 1]
    /\ UNCHANGED <<notWrapVars, pw_op, pw_sel, pw_pc, pw_devs, pw_threads,
                   pw_invoked, pw_tasks>>

WrapNext ==
    \/ pool_wrapper
    \/ \E i \in 1..MaxPool : pool_target(i)
    \/ pool_return
    \/ \E l \in AllLinks : link_background(l)
    \/ \E l \in AllLinks : link_task(l)

SpecWrappers == WrapInit /\ [][WrapNext]_vars

\* the wrapper has invoked the single-link operation op on link l
PoolInvoked(l, op) ==
    \E n \in DOMAIN pw_invoked[l] :
        pw_invoked[l][n] = [op |-> op, by |-> "pool"]

\* C20: when a pool wrapper has returned, the single-link operation of the
\* wrapper's own name has been invoked on every link the selector resolved
\* to, and after pool.background each of these links has the periodic task
\* the wrapper started, by which cmd is executed again and again.
C20_WrapperDispatchesSameName ==
    pw_pc = "returned" =>
        \A i \in DOMAIN pw_devs :
            /\ PoolInvoked(pw_devs[i], pw_op)
            /\ pw_op = "background" =>
                  [link |-> pw_devs[i], by |-> "pool"] \in pw_tasks

====
